---------------------------- MODULE Spec2Model ----------------------------
(***************************************************************************)
(* A model of the SDL2 tutorial programs of this repository.  Every        *)
(* tutorial is a program of its own, so the module holds one               *)
(* specification per program (or family of programs); the variables of     *)
(* the programs a specification does not run stay at their idle values.    *)
(*                                                                         *)
(*   SpecPC / FairSpecPC   the mutex-and-conditions producer/consumer demo *)
(*   SpecLock              the semaphore demo and the spinlock demo        *)
(*   SpecMain              start-up, main loop and exit of main()          *)
(*   SpecFile              the file reading and writing demo, run after run*)
(*   SpecTimer             the LTimer stopwatch under the s and p keys     *)
(*   SpecWin               the event loop of the multiple-windows demo     *)
(*   SpecDisp              the event loop of the multiple-displays demo    *)
(*   SpecTiles             setTiles() reading lazy.map                     *)
(*   SpecCam               the dot and the camera of the scrolling demo    *)
(***************************************************************************)
EXTENDS Integers, Sequences, FiniteSets, TLC

VARIABLES
    \* ---- producer/consumer demo (mutexes and conditions) ----
    gData,          \* the shared buffer, -1 when empty
    gBufferLock,    \* owner of the mutex: "free", "producer" or "consumer"
    gCanProduce,    \* threads blocked in SDL_CondWait(gCanProduce, ...)
    gCanConsume,    \* threads blocked in SDL_CondWait(gCanConsume, ...)
    pc,             \* program counter of the producer and the consumer thread
    iter,           \* loop variable i of producer() and consumer()
    \* ---- semaphore demo and spinlock demo (they also use gData) ----
    demo,           \* which of the two programs runs
    gDataLock,      \* value of the semaphore / the spinlock word
    destroyed,      \* the semaphore was destroyed and gDataLock set to NULL
    wpc,            \* program counter of worker "Thread A" and "Thread B"
    witer,          \* loop variable i of each worker
    created,        \* the threads main has created
    mainPc,         \* position of main
    \* ---- start-up and exit of a program's main() ----
    prog,           \* the program that runs
    mpc,            \* position of main: startup, loop, equit, closed, exited
    callIdx,        \* the next start-up library call (index in StartupCalls)
    failedCalls,    \* library calls that failed and did not stop the start-up
    startupFailed,  \* init() or loadMedia() returned its failure code
    closedAll,      \* close_all() has run
    exitCode,       \* the value main returned
    \* ---- file reading and writing demo (gData is its array of 10) ----
    numsBin,        \* the file nums.bin: does it exist, and its bytes
    currentData,    \* gStr.currentData
    fpc,            \* position of main in the current run
    run,            \* number of the current run of the program
    keys,           \* key presses handled in the current run
    lastSaved,      \* gData as it was when close_all last wrote it (<<>>: never)
    wrote,          \* close_all of the current run opened nums.bin and wrote
    \* ---- LTimer ----
    ticks,          \* what SDL_GetTicks() returns now
    mStartTicks,    \* LTimer.mStartTicks
    mPausedTicks,   \* LTimer.mPausedTicks
    mPaused,        \* LTimer.mPaused
    mStarted,       \* LTimer.mStarted
    tphase,         \* what the user last did to the timer
    pausedAt,       \* the elapsed time the timer showed when it was paused
    sinceUnpause,   \* the time that has passed since it was unpaused
    sinceStart,     \* the time that has passed since LTimer_start
    pausedFor,      \* how much of that time the timer has spent paused
    \* ---- multiple windows demo ----
    mWindow,        \* per window: LWindow.mWindow is not NULL
    mShown,         \* per window: LWindow.mShown
    mMinimized,     \* per window: LWindow.mMinimized
    onScreen,       \* per window: SDL shows the window on screen
    events,         \* the SDL event queue
    winPc,          \* position of main: "loop", "equit", "exited"
    endedBy,        \* what made main leave the loop
    lastHandled,    \* per window: the last window event it handled
    userEvents,     \* user actions so far
    \* ---- multiple displays demo ----
    gTotalDisplays,     \* number of displays found by init()
    mWindowDisplayID,   \* LWindow.mWindowDisplayID (unsigned)
    windowOn,           \* the display SDL has the window on
    setPosition,        \* display whose bounds the last event's
                        \* SDL_SetWindowPosition call used, -1: no call
    caption,            \* display number in the window title, -1: none
    dLast,              \* the last event LWindow_handleEvent handled
    dispPc,             \* position of main
    \* ---- tiling demo: setTiles ----
    mapFile,        \* lazy.map: does it exist, and its tokens
    mapPos,         \* tokens of lazy.map consumed so far
    tile,           \* setTiles: int tile, the target of fscanf
    tileI,          \* setTiles: the loop counter i
    tileX,          \* setTiles: x
    tileY,          \* setTiles: y
    tiles,          \* the tiles created so far, tiles[0] .. tiles[i-1]
    tilesPc,        \* position in setTiles
    tilesResult,    \* the value setTiles returned
    \* ---- scrolling demo: the dot and the camera ----
    mPosX,          \* Dot.mPosX
    mPosY,          \* Dot.mPosY
    mVelX,          \* Dot.mVelX
    mVelY,          \* Dot.mVelY
    camera,         \* SDL_Rect camera
    frames          \* passes of the main loop that are followed

pcVars == <<gBufferLock, gCanProduce, gCanConsume, pc, iter>>
lockVars == <<demo, gDataLock, destroyed, wpc, witer, created, mainPc>>

mainVars == <<prog, mpc, callIdx, failedCalls, startupFailed, closedAll, exitCode>>

fileVars == <<numsBin, currentData, fpc, run, keys, lastSaved, wrote>>

timerVars == <<ticks, mStartTicks, mPausedTicks, mPaused, mStarted,
               tphase, pausedAt, sinceUnpause, sinceStart, pausedFor>>

winVars == <<mWindow, mShown, mMinimized, onScreen, events, winPc, endedBy,
             lastHandled, userEvents>>

dispVars == <<gTotalDisplays, mWindowDisplayID, windowOn, setPosition,
              caption, dLast, dispPc>>

tileVars == <<mapFile, mapPos, tile, tileI, tileX, tileY, tiles, tilesPc,
              tilesResult>>

camVars == <<mPosX, mPosY, mVelX, mVelY, camera, frames>>

vars == <<gData, pcVars, lockVars, mainVars, fileVars, timerVars, winVars,
          dispVars, tileVars, camVars>>

\* what each program leaves alone: the variables of the other programs
restPC == <<lockVars, mainVars, fileVars, timerVars, winVars,
    dispVars, tileVars, camVars>>
restLock == <<pcVars, mainVars, fileVars, timerVars, winVars,
    dispVars, tileVars, camVars>>
restMain == <<gData, pcVars, lockVars, fileVars, timerVars, winVars,
    dispVars, tileVars, camVars>>
restFile == <<pcVars, lockVars, mainVars, timerVars, winVars,
    dispVars, tileVars, camVars>>
restTimer == <<gData, pcVars, lockVars, mainVars, fileVars, winVars,
    dispVars, tileVars, camVars>>
restDisp == <<gData, pcVars, lockVars, mainVars, fileVars, timerVars, winVars,
    tileVars, camVars>>
restTiles == <<gData, pcVars, lockVars, mainVars, fileVars, timerVars, winVars,
    dispVars, camVars>>
restCam == <<gData, pcVars, lockVars, mainVars, fileVars, timerVars, winVars,
    dispVars, tileVars>>
restWin == <<gData, pcVars, lockVars, mainVars, fileVars, timerVars,
    dispVars, tileVars, camVars>>

-----------------------------------------------------------------------------
(***************************************************************************)
(* Producer / consumer demo: mutexes and conditions.                       *)
(***************************************************************************)

\* for(i = 0; i < 5; ++i) in producer() and consumer()
TotalRuns == 5

\* gData = rand() % 255
ProduceModulus == 255

\* values rand() is taken to return (any non-negative int in the program)
RandSamples == {0, 41, 254, 255}

PCThreads == {"producer", "consumer"}

Workers == {"Thread A", "Thread B"}

\* the lock demos are not running
IdleLock ==
    /\ demo = "none"
    /\ gDataLock = 0
    /\ destroyed = FALSE
    /\ wpc = [w \in Workers |-> "none"]
    /\ witer = [w \in Workers |-> 0]
    /\ created = {}
    /\ mainPc = "none"

\* the producer/consumer demo is not running
IdlePC ==
    /\ gBufferLock = "free"
    /\ gCanProduce = {}
    /\ gCanConsume = {}
    /\ pc = [t \in PCThreads |-> "none"]
    /\ iter = [t \in PCThreads |-> 0]

\* no main() is being followed through its start-up
IdleMain ==
    /\ prog = "none"
    /\ mpc = "none"
    /\ callIdx = 0
    /\ failedCalls = {}
    /\ startupFailed = FALSE
    /\ closedAll = FALSE
    /\ exitCode = 0

\* the file demo is not running
IdleFile ==
    /\ numsBin = [exists |-> FALSE, bytes |-> <<>>]
    /\ currentData = 0
    /\ fpc = "none"
    /\ run = 0
    /\ keys = 0
    /\ lastSaved = <<>>
    /\ wrote = FALSE

\* no LTimer exists
IdleTimer ==
    /\ ticks = 0
    /\ mStartTicks = 0
    /\ mPausedTicks = 0
    /\ mPaused = FALSE
    /\ mStarted = FALSE
    /\ tphase = "none"
    /\ pausedAt = 0
    /\ sinceUnpause = 0
    /\ sinceStart = 0
    /\ pausedFor = 0

\* the multiple-windows demo is not running
IdleWin ==
    /\ mWindow = <<>>
    /\ mShown = <<>>
    /\ mMinimized = <<>>
    /\ onScreen = <<>>
    /\ events = <<>>
    /\ winPc = "none"
    /\ endedBy = "none"
    /\ lastHandled = <<>>
    /\ userEvents = 0

\* the multiple-displays demo is not running
IdleDisp ==
    /\ gTotalDisplays = 0
    /\ mWindowDisplayID = 0
    /\ windowOn = 0
    /\ setPosition = 0 - 1
    /\ caption = 0 - 1
    /\ dLast = "none"
    /\ dispPc = "none"

\* setTiles is not running
IdleTiles ==
    /\ mapFile = [exists |-> FALSE, tokens |-> <<>>]
    /\ mapPos = 0
    /\ tile = 0
    /\ tileI = 0
    /\ tileX = 0
    /\ tileY = 0
    /\ tiles = <<>>
    /\ tilesPc = "none"
    /\ tilesResult = 0

\* the scrolling demo is not running
IdleCam ==
    /\ mPosX = 0
    /\ mPosY = 0
    /\ mVelX = 0
    /\ mVelY = 0
    /\ camera = [x |-> 0, y |-> 0, w |-> 0, h |-> 0]
    /\ frames = 0

\* int gData = -1; the mutex and the conditions exist and nobody holds them;
\* both threads have been created and stand before their first SDL_Delay.
InitPC ==
    /\ gData = -1
    /\ gBufferLock = "free"
    /\ gCanProduce = {}
    /\ gCanConsume = {}
    /\ pc = [t \in PCThreads |-> "delay"]
    /\ iter = [t \in PCThreads |-> 0]
    /\ IdleLock
    /\ IdleMain
    /\ IdleFile
    /\ IdleTimer
    /\ IdleWin
    /\ IdleDisp
    /\ IdleTiles
    /\ IdleCam

\* SDL_Delay(rand() % 1000) at the top of a loop iteration, then the call
Delay(t) ==
    /\ pc[t] = "delay"
    /\ pc' = [pc EXCEPT ![t] = "lock"]
    /\ UNCHANGED <<gData, gBufferLock, gCanProduce, gCanConsume, iter, restPC>>

\* SDL_LockMutex(gBufferLock): blocks until the mutex is free
LockMutex(t) ==
    /\ pc[t] = "lock"
    /\ gBufferLock = "free"
    /\ gBufferLock' = t
    /\ pc' = [pc EXCEPT ![t] = "check"]
    /\ UNCHANGED <<gData, gCanProduce, gCanConsume, iter, restPC>>

\* produce(): if(gData != -1) SDL_CondWait(gCanProduce, gBufferLock);
\* SDL_CondWait releases the mutex and blocks the caller on the condition.
produce_check ==
    /\ pc["producer"] = "check"
    /\ IF gData /= -1
          THEN /\ gCanProduce' = gCanProduce \cup {"producer"}
               /\ gBufferLock' = "free"
               /\ pc' = [pc EXCEPT !["producer"] = "wait"]
          ELSE /\ pc' = [pc EXCEPT !["producer"] = "work"]
               /\ UNCHANGED <<gCanProduce, gBufferLock>>
    /\ UNCHANGED <<gData, gCanConsume, iter, restPC>>

\* consume(): if(gData == -1) SDL_CondWait(gCanConsume, gBufferLock);
consume_check ==
    /\ pc["consumer"] = "check"
    /\ IF gData = -1
          THEN /\ gCanConsume' = gCanConsume \cup {"consumer"}
               /\ gBufferLock' = "free"
               /\ pc' = [pc EXCEPT !["consumer"] = "wait"]
          ELSE /\ pc' = [pc EXCEPT !["consumer"] = "work"]
               /\ UNCHANGED <<gCanConsume, gBufferLock>>
    /\ UNCHANGED <<gData, gCanProduce, iter, restPC>>

\* the condition a thread waits on
WaitedCond(t) == IF t = "producer" THEN gCanProduce ELSE gCanConsume

\* Return from SDL_CondWait: the thread has been signalled (it is no longer
\* among the waiters) and takes the mutex again before it goes on.  The code
\* does not test gData again: the wait stands in an if, not in a loop.
CondWaitReturn(t) ==
    /\ pc[t] = "wait"
    /\ t \notin WaitedCond(t)
    /\ gBufferLock = "free"
    /\ gBufferLock' = t
    /\ pc' = [pc EXCEPT ![t] = "work"]
    /\ UNCHANGED <<gData, gCanProduce, gCanConsume, iter, restPC>>

\* produce(): gData = rand() % 255; printf("Produced ...")
produce_fill ==
    /\ pc["producer"] = "work"
    /\ \E r \in RandSamples : gData' = r % ProduceModulus
    /\ pc' = [pc EXCEPT !["producer"] = "unlock"]
    /\ UNCHANGED <<gBufferLock, gCanProduce, gCanConsume, iter, restPC>>

\* consume(): printf("Consumed ..."); gData = -1
consume_empty ==
    /\ pc["consumer"] = "work"
    /\ gData' = -1
    /\ pc' = [pc EXCEPT !["consumer"] = "unlock"]
    /\ UNCHANGED <<gBufferLock, gCanProduce, gCanConsume, iter, restPC>>

\* SDL_UnlockMutex(gBufferLock)
UnlockMutex(t) ==
    /\ pc[t] = "unlock"
    /\ gBufferLock' = "free"
    /\ pc' = [pc EXCEPT ![t] = "signal"]
    /\ UNCHANGED <<gData, gCanProduce, gCanConsume, iter, restPC>>

\* the loop step after produce() / consume() returned: ++i, i < 5
LoopStep(t) == IF iter[t] + 1 < TotalRuns THEN "delay" ELSE "done"

\* produce(): SDL_CondSignal(gCanConsume), after the mutex was released.
\* SDL_CondSignal restarts one waiting thread; with nobody waiting the
\* signal is lost.  Then produce() returns to the loop of producer().
produce_signal ==
    /\ pc["producer"] = "signal"
    /\ IF gCanConsume = {}
          THEN gCanConsume' = gCanConsume
          ELSE \E w \in gCanConsume : gCanConsume' = gCanConsume \ {w}
    /\ iter' = [iter EXCEPT !["producer"] = @ + 1]
    /\ pc' = [pc EXCEPT !["producer"] = LoopStep("producer")]
    /\ UNCHANGED <<gData, gBufferLock, gCanProduce, restPC>>

\* consume(): SDL_CondSignal(gCanProduce), after the mutex was released
consume_signal ==
    /\ pc["consumer"] = "signal"
    /\ IF gCanProduce = {}
          THEN gCanProduce' = gCanProduce
          ELSE \E w \in gCanProduce : gCanProduce' = gCanProduce \ {w}
    /\ iter' = [iter EXCEPT !["consumer"] = @ + 1]
    /\ pc' = [pc EXCEPT !["consumer"] = LoopStep("consumer")]
    /\ UNCHANGED <<gData, gBufferLock, gCanConsume, restPC>>

producer ==
    \/ Delay("producer")
    \/ LockMutex("producer")
    \/ produce_check
    \/ CondWaitReturn("producer")
    \/ produce_fill
    \/ UnlockMutex("producer")
    \/ produce_signal

consumer ==
    \/ Delay("consumer")
    \/ LockMutex("consumer")
    \/ consume_check
    \/ CondWaitReturn("consumer")
    \/ consume_empty
    \/ UnlockMutex("consumer")
    \/ consume_signal

NextPC == producer \/ consumer

SpecPC == InitPC /\ [][NextPC]_vars

\* Both threads are scheduled for as long as they can take a step (the main
\* thread stays in its event loop and never quits).
FairSpecPC == InitPC /\ [][NextPC]_vars /\ WF_vars(producer) /\ WF_vars(consumer)

-----------------------------------------------------------------------------
(***************************************************************************)
(* Semaphore demo and spinlock demo: two workers, each five times through  *)
(* a critical section on gData, and the main thread that created them.     *)
(***************************************************************************)

\* for(i = 0; i < 5; ++i) in worker()
WorkerRuns == 5

\* gData = rand() % 256
WorkModulus == 256

LockDemos == {"semaphore", "spinlock"}

\* init() and loadMedia() have returned 0: the semaphore holds
\* SDL_CreateSemaphore(1), the spinlock holds 0; gData = -1; main stands
\* before its first SDL_CreateThread.
InitLock ==
    /\ demo \in LockDemos
    /\ gData = -1
    /\ gDataLock = IF demo = "semaphore" THEN 1 ELSE 0
    /\ destroyed = FALSE
    /\ wpc = [w \in Workers |-> "notCreated"]
    /\ witer = [w \in Workers |-> 0]
    /\ created = {}
    /\ mainPc = "createA"
    /\ IdlePC
    /\ IdleMain
    /\ IdleFile
    /\ IdleTimer
    /\ IdleWin
    /\ IdleDisp
    /\ IdleTiles
    /\ IdleCam

\* the process runs until main returns
Running == mainPc /= "exited"

\* main: SDL_CreateThread(worker, "Thread A", ...); SDL_Delay(...);
main_CreateThreadA ==
    /\ mainPc = "createA"
    /\ created' = created \cup {"Thread A"}
    /\ wpc' = [wpc EXCEPT !["Thread A"] = "delay"]
    /\ mainPc' = "createB"
    /\ UNCHANGED <<gData, demo, gDataLock, witer, destroyed, restLock>>

\* main: SDL_CreateThread(worker, "Thread B", ...); then the main loop
main_CreateThreadB ==
    /\ mainPc = "createB"
    /\ created' = created \cup {"Thread B"}
    /\ wpc' = [wpc EXCEPT !["Thread B"] = "delay"]
    /\ mainPc' = "loop"
    /\ UNCHANGED <<gData, demo, gDataLock, witer, destroyed, restLock>>

\* main loop: SDL_PollEvent delivers SDL_QUIT: goto equit.  (Any other
\* pass through the loop only renders and changes nothing modelled.)
\* The jump passes over the SDL_WaitThread calls, which stand between the
\* end of the while(1) loop and the label.
main_Quit ==
    /\ mainPc = "loop"
    /\ mainPc' = "equit"
    /\ UNCHANGED <<gData, demo, gDataLock, wpc, witer, created, destroyed, restLock>>

\* close_all(): the semaphore demo destroys the semaphore and sets
\* gDataLock = NULL; the spinlock demo leaves the spinlock alone.
close_all_Lock ==
    /\ mainPc = "equit"
    /\ destroyed' = (demo = "semaphore")
    /\ mainPc' = "closed"
    /\ UNCHANGED <<gData, demo, gDataLock, wpc, witer, created, restLock>>

\* main: return 0; the process ends and with it every thread
main_Return ==
    /\ mainPc = "closed"
    /\ mainPc' = "exited"
    /\ UNCHANGED <<gData, demo, gDataLock, wpc, witer, created, destroyed, restLock>>

\* worker: SDL_Delay(16 + rand() % 32) at the top of an iteration
worker_Delay(w) ==
    /\ Running
    /\ wpc[w] = "delay"
    /\ wpc' = [wpc EXCEPT ![w] = "lock"]
    /\ UNCHANGED <<gData, demo, gDataLock, witer, created, mainPc, destroyed, restLock>>

\* SDL_SemWait(gDataLock): waits until the value is positive and takes one.
\* On the destroyed semaphore (gDataLock == NULL) it returns an error at
\* once; the worker does not look at the result.
SDL_SemWait(w) ==
    /\ demo = "semaphore"
    /\ IF destroyed
          THEN gDataLock' = gDataLock
          ELSE gDataLock > 0 /\ gDataLock' = gDataLock - 1

\* SDL_AtomicLock(&gDataLock): spins until it has set the word from 0 to 1
SDL_AtomicLock(w) ==
    /\ demo = "spinlock"
    /\ gDataLock = 0
    /\ gDataLock' = 1

\* worker: the lock call before the critical section
worker_Lock(w) ==
    /\ Running
    /\ wpc[w] = "lock"
    /\ SDL_SemWait(w) \/ SDL_AtomicLock(w)
    /\ wpc' = [wpc EXCEPT ![w] = "get"]
    /\ UNCHANGED <<gData, demo, witer, created, mainPc, destroyed, restLock>>

\* worker: SDL_Log("%s gets %d", str, gData)
worker_Get(w) ==
    /\ Running
    /\ wpc[w] = "get"
    /\ wpc' = [wpc EXCEPT ![w] = "set"]
    /\ UNCHANGED <<gData, demo, gDataLock, witer, created, mainPc, destroyed, restLock>>

\* worker: gData = rand() % 256; SDL_Log("%s sets %d", str, gData)
worker_Set(w) ==
    /\ Running
    /\ wpc[w] = "set"
    /\ \E r \in RandSamples : gData' = r % WorkModulus
    /\ wpc' = [wpc EXCEPT ![w] = "unlock"]
    /\ UNCHANGED <<demo, gDataLock, witer, created, mainPc, destroyed, restLock>>

\* SDL_SemPost(gDataLock): adds one; an error on the destroyed semaphore
SDL_SemPost(w) ==
    /\ demo = "semaphore"
    /\ gDataLock' = IF destroyed THEN gDataLock ELSE gDataLock + 1

\* SDL_AtomicUnlock(&gDataLock): sets the word to 0
SDL_AtomicUnlock(w) ==
    /\ demo = "spinlock"
    /\ gDataLock' = 0

\* worker: the unlock call after the critical section
worker_Unlock(w) ==
    /\ Running
    /\ wpc[w] = "unlock"
    /\ SDL_SemPost(w) \/ SDL_AtomicUnlock(w)
    /\ wpc' = [wpc EXCEPT ![w] = "delay2"]
    /\ UNCHANGED <<gData, demo, witer, created, mainPc, destroyed, restLock>>

\* worker: SDL_Delay(16 + rand() % 640); ++i; i < 5, or the thread ends
worker_Loop(w) ==
    /\ Running
    /\ wpc[w] = "delay2"
    /\ witer' = [witer EXCEPT ![w] = @ + 1]
    /\ wpc' = [wpc EXCEPT ![w] = IF witer[w] + 1 < WorkerRuns THEN "delay" ELSE "end"]
    /\ UNCHANGED <<gData, demo, gDataLock, created, mainPc, destroyed, restLock>>

worker(w) ==
    \/ worker_Delay(w)
    \/ worker_Lock(w)
    \/ worker_Get(w)
    \/ worker_Set(w)
    \/ worker_Unlock(w)
    \/ worker_Loop(w)

main_Lock ==
    \/ main_CreateThreadA
    \/ main_CreateThreadB
    \/ main_Quit
    \/ close_all_Lock
    \/ main_Return

NextLock == main_Lock \/ \E w \in Workers : worker(w)

SpecLock == InitLock /\ [][NextLock]_vars

\* a worker is between its lock call and its matching unlock call
InCriticalSection(w) == wpc[w] \in {"get", "set", "unlock"}

-----------------------------------------------------------------------------
(***************************************************************************)
(* Start-up and exit of main().  Every program runs init(), loadMedia()    *)
(* and what main itself sets up, each a sequence of library calls, any of  *)
(* which may fail; then the event loop until SDL_QUIT; then the label      *)
(* equit with close_all() and the return.                                  *)
(*                                                                         *)
(* Listed are the library calls that acquire something and report failure; *)
(* "how" is what the code does when the call fails:                        *)
(*   "return"    the calling function returns -1 and main tests it;        *)
(*   "dropped"   the calling function returns -1 and its caller does not   *)
(*               look at the result; "skip" counts the calls the function  *)
(*               would have made after it;                                 *)
(*   "unchecked" nobody looks at the result of the call (or it is logged   *)
(*               and the function goes on).                                *)
(***************************************************************************)

Call(fn, name, how, skip) == [fn |-> fn, call |-> name, how |-> how, skip |-> skip]

\* 30_scrolling.c: init(), LTexture_loadFromFile() twice from loadMedia()
Calls_scrolling == <<
    Call("init", "SDL_Init", "return", 0),
    Call("init", "SDL_GameControllerOpen", "unchecked", 0),
    Call("init", "SDL_CreateWindow", "return", 0),
    Call("init", "SDL_CreateRenderer", "return", 0),
    Call("init", "IMG_Init", "return", 0),
    Call("loadMedia", "IMG_Load dot.bmp", "return", 0),
    Call("loadMedia", "SDL_CreateTextureFromSurface dot.bmp", "return", 0),
    Call("loadMedia", "IMG_Load bg.png", "return", 0),
    Call("loadMedia", "SDL_CreateTextureFromSurface bg.png", "return", 0) >>

\* 46_multithreading.c: init(), loadMedia(), SDL_CreateThread in main
Calls_multithreading == <<
    Call("init", "SDL_Init", "return", 0),
    Call("init", "SDL_CreateWindow", "return", 0),
    Call("init", "SDL_CreateRenderer", "return", 0),
    Call("init", "IMG_Init", "return", 0),
    Call("loadMedia", "IMG_Load", "return", 0),
    Call("loadMedia", "SDL_ConvertSurfaceFormat", "return", 0),
    Call("loadMedia", "SDL_CreateTexture", "return", 0),
    Call("loadMedia", "SDL_LockTexture", "unchecked", 0),
    Call("main", "SDL_CreateThread", "unchecked", 0) >>

\* the mutexes-and-conditions demo: loadMedia() creates the mutex and the
\* two conditions and tests none of them
Calls_mutex == <<
    Call("init", "SDL_Init", "return", 0),
    Call("init", "SDL_CreateWindow", "return", 0),
    Call("init", "SDL_CreateRenderer", "return", 0),
    Call("init", "IMG_Init", "return", 0),
    Call("loadMedia", "SDL_CreateMutex", "unchecked", 0),
    Call("loadMedia", "SDL_CreateCond gCanProduce", "unchecked", 0),
    Call("loadMedia", "SDL_CreateCond gCanConsume", "unchecked", 0),
    Call("loadMedia", "IMG_Load", "return", 0),
    Call("loadMedia", "SDL_ConvertSurfaceFormat", "return", 0),
    Call("loadMedia", "SDL_CreateTexture", "return", 0),
    Call("loadMedia", "SDL_LockTexture", "unchecked", 0),
    Call("main", "SDL_CreateThread producer", "unchecked", 0),
    Call("main", "SDL_CreateThread consumer", "unchecked", 0) >>

\* 36_multiple_windows.c: init() opens window 0 with LWindow_init and tests
\* it; main opens windows 1 and 2 with LWindow_init and drops the result.
\* LWindow_init returns at a failed SDL_CreateWindow without creating the
\* renderer.  The program has no loadMedia().
Calls_windows == <<
    Call("init", "SDL_Init", "return", 0),
    Call("init", "SDL_CreateWindow 0", "return", 0),
    Call("init", "SDL_CreateRenderer 0", "return", 0),
    Call("main", "SDL_CreateWindow 1", "dropped", 1),
    Call("main", "SDL_CreateRenderer 1", "dropped", 0),
    Call("main", "SDL_CreateWindow 2", "dropped", 1),
    Call("main", "SDL_CreateRenderer 2", "dropped", 0) >>

\* 41_bitmap_fonts.c: loadMedia() tests LTexture_loadFromFile and drops the
\* result of LBitmapFont_buildFont, which returns -1 when it cannot lock
\* the texture
Calls_bitmapfont == <<
    Call("init", "SDL_Init", "return", 0),
    Call("init", "SDL_CreateWindow", "return", 0),
    Call("init", "SDL_CreateRenderer", "return", 0),
    Call("init", "IMG_Init", "return", 0),
    Call("loadMedia", "IMG_Load", "return", 0),
    Call("loadMedia", "SDL_ConvertSurfaceFormat", "return", 0),
    Call("loadMedia", "SDL_CreateTexture", "return", 0),
    Call("loadMedia", "SDL_LockTexture", "unchecked", 0),
    Call("loadMedia", "LBitmapFont_buildFont: SDL_LockTexture", "dropped", 0) >>

Programs == {"scrolling", "multithreading", "mutex", "windows", "bitmapfont"}

StartupCalls(p) ==
    CASE p = "scrolling" -> Calls_scrolling
      [] p = "multithreading" -> Calls_multithreading
      [] p = "mutex" -> Calls_mutex
      [] p = "windows" -> Calls_windows
      [] p = "bitmapfont" -> Calls_bitmapfont

\* What main does when init() or loadMedia() returns non-zero: most programs
\* "goto equit"; the threading demos return at once.
OnStartupFailure(p) ==
    IF p \in {"multithreading", "mutex"} THEN "return" ELSE "goto equit"

\* the value of that return statement: return 1 in 46_multithreading.c,
\* return -1 in the mutexes-and-conditions demo
StartupFailureCode(p) == IF p = "multithreading" THEN 1 ELSE 0 - 1

InitMain ==
    /\ prog \in Programs
    /\ mpc = "startup"
    /\ callIdx = 1
    /\ failedCalls = {}
    /\ startupFailed = FALSE
    /\ closedAll = FALSE
    /\ exitCode = 0
    /\ gData = 0 - 1
    /\ IdlePC
    /\ IdleLock
    /\ IdleFile
    /\ IdleTimer
    /\ IdleWin
    /\ IdleDisp
    /\ IdleTiles
    /\ IdleCam

\* the library call at callIdx succeeds
CallSucceeds ==
    /\ callIdx' = callIdx + 1
    /\ UNCHANGED <<mpc, failedCalls, startupFailed, exitCode>>

\* the library call at callIdx fails
CallFails(c) ==
    IF c.how = "return"
       THEN \* the function returns -1 to main: if(init()) / if(loadMedia())
            /\ startupFailed' = TRUE
            /\ callIdx' = callIdx
            /\ failedCalls' = failedCalls
            /\ IF OnStartupFailure(prog) = "return"
                  THEN mpc' = "exited" /\ exitCode' = StartupFailureCode(prog)
                  ELSE mpc' = "equit" /\ exitCode' = exitCode
       ELSE \* the start-up goes on
            /\ failedCalls' = failedCalls \cup {c.call}
            /\ callIdx' = callIdx + 1 + c.skip
            /\ UNCHANGED <<mpc, startupFailed, exitCode>>

\* one library call of the start-up function fn
StartupCall(fn) ==
    /\ mpc = "startup"
    /\ callIdx <= Len(StartupCalls(prog))
    /\ LET c == StartupCalls(prog)[callIdx]
       IN  /\ c.fn = fn
           /\ CallSucceeds \/ CallFails(c)
    /\ UNCHANGED <<prog, closedAll, restMain>>

init_Call == StartupCall("init")
loadMedia_Call == StartupCall("loadMedia")
main_SetupCall == StartupCall("main")

\* all of the start-up is through: main enters while(1)
main_EnterLoop ==
    /\ mpc = "startup"
    /\ callIdx > Len(StartupCalls(prog))
    /\ mpc' = "loop"
    /\ UNCHANGED <<prog, callIdx, failedCalls, startupFailed, closedAll, exitCode, restMain>>

\* SDL_PollEvent delivers SDL_QUIT: goto equit
main_PollQuit ==
    /\ mpc = "loop"
    /\ mpc' = "equit"
    /\ UNCHANGED <<prog, callIdx, failedCalls, startupFailed, closedAll, exitCode, restMain>>

\* equit: close_all();
main_close_all ==
    /\ mpc = "equit"
    /\ closedAll' = TRUE
    /\ mpc' = "closed"
    /\ UNCHANGED <<prog, callIdx, failedCalls, startupFailed, exitCode, restMain>>

\* return 0; at the end of main
main_Return0 ==
    /\ mpc = "closed"
    /\ exitCode' = 0
    /\ mpc' = "exited"
    /\ UNCHANGED <<prog, callIdx, failedCalls, startupFailed, closedAll, restMain>>

NextMain ==
    \/ init_Call
    \/ loadMedia_Call
    \/ main_SetupCall
    \/ main_EnterLoop
    \/ main_PollQuit
    \/ main_close_all
    \/ main_Return0

SpecMain == InitMain /\ [][NextMain]_vars

-----------------------------------------------------------------------------
(***************************************************************************)
(* File reading and writing demo: Sint32 gData[TOTAL_DATA] is read from    *)
(* nums.bin by loadMedia(), changed with the arrow keys and written back   *)
(* by close_all().  The file outlives the process, so the specification    *)
(* follows the program through several runs.                               *)
(***************************************************************************)

\* #define TOTAL_DATA 10
TOTAL_DATA == 10

\* Sint32: the largest value, and sizeof(Sint32)
INT32_MAX == 2147483647
SizeofSint32 == 4
INT32_MIN == (0 - INT32_MAX) - 1

\* runs of the program that are followed, and key presses per run
MaxRuns == 3
MaxKeys == 2

\* The 4 bytes SDL_RWwrite(file, &v, sizeof(Sint32), 1) writes for v: the
\* two's complement of v, least significant byte first.
Sint32Bytes(v) ==
    LET w == IF v < 0 THEN (v + INT32_MAX) + 1 ELSE v   \* v without its sign bit
        top == (w \div 16777216) + (IF v < 0 THEN 128 ELSE 0)
    IN  << w % 256, (w \div 256) % 256, (w \div 65536) % 256, top >>

\* The Sint32 that SDL_RWread(file, &v, sizeof(Sint32), 1) stores for 4 bytes
BytesSint32(b) ==
    LET neg == b[4] >= 128
        w == b[1] + 256 * b[2] + 65536 * b[3]
               + 16777216 * (IF neg THEN b[4] - 128 ELSE b[4])
    IN  IF neg THEN (w - INT32_MAX) - 1 ELSE w

RECURSIVE WriteValues(_, _)
\* for(i = 0; i < n; ++i) SDL_RWwrite(file, &gData[i], sizeof(Sint32), 1);
\* the bytes that end up in the file (data is indexed from 1 here)
WriteValues(data, n) ==
    IF n = 0 THEN <<>> ELSE WriteValues(data, n - 1) \o Sint32Bytes(data[n])

\* a loop that stops one value short
WriteAll_OneShort(data) == WriteValues(data, TOTAL_DATA - 1)

\* close_all(): the loop that writes all of gData
WriteAll(data) == WriteValues(data, TOTAL_DATA)

\* loadMedia(): for(i = 0; i < TOTAL_DATA; ++i) SDL_RWread(file, &gData[i],
\* sizeof(Sint32), 1): reads go through the file in order; a read past the
\* end stores nothing and leaves gData[i] as it was.
ReadAll(bytes, old) ==
    [i \in 1..TOTAL_DATA |->
        IF SizeofSint32 * i <= Len(bytes)
           THEN BytesSint32(SubSeq(bytes, SizeofSint32 * (i - 1) + 1, SizeofSint32 * i))
           ELSE old[i]]

\* Sint32 gData[TOTAL_DATA] at process start: static storage, all 0
ZeroData == [i \in 1..TOTAL_DATA |-> 0]

\* what an earlier session may have left in nums.bin
SampleData ==
    << INT32_MAX, INT32_MIN, 0 - 1, 0, 1, 255, 256, 0 - 256, 65536, 16777216 >>

\* ++gData[i] and --gData[i] on a Sint32; past the ends the value wraps
\* around, which is what the increment of a 32-bit word in memory produces
Increment(v) == IF v = INT32_MAX THEN INT32_MIN ELSE v + 1
Decrement(v) == IF v = INT32_MIN THEN INT32_MAX ELSE v - 1

\* The first run starts with no nums.bin, or with the file an earlier
\* session wrote.
InitFile ==
    /\ \/ /\ numsBin = [exists |-> FALSE, bytes |-> <<>>]
          /\ lastSaved = <<>>
       \/ /\ numsBin = [exists |-> TRUE, bytes |-> WriteAll(SampleData)]
          /\ lastSaved = SampleData
    /\ gData = ZeroData
    /\ currentData = 0
    /\ fpc = "init"
    /\ run = 1
    /\ keys = 0
    /\ wrote = FALSE
    /\ IdlePC
    /\ IdleLock
    /\ IdleMain
    /\ IdleTimer
    /\ IdleWin
    /\ IdleDisp
    /\ IdleTiles
    /\ IdleCam

\* main: if(init()) goto equit;
file_init ==
    /\ fpc = "init"
    /\ \E ok \in BOOLEAN : fpc' = IF ok THEN "loadMedia" ELSE "equit"
    /\ UNCHANGED <<gData, numsBin, currentData, run, keys, lastSaved, wrote, restFile>>

\* main: if(loadMedia()) goto equit;
\* loadMedia(): gStr_init; the font and the prompt texture, where it can
\* return -1 before it touches the file; then nums.bin is opened "r+b":
\* if that fails the file is created "w+b" (return -1 if that fails too)
\* and ten zeros are written, otherwise the ten values are read.
file_loadMedia ==
    /\ fpc = "loadMedia"
    /\ currentData' = 0
    /\ \E fontOk \in BOOLEAN :
          IF ~fontOk
             THEN /\ fpc' = "equit"
                  /\ UNCHANGED <<gData, numsBin>>
             ELSE IF numsBin.exists
                        THEN /\ fpc' = "loaded"
                             /\ gData' = ReadAll(numsBin.bytes, gData)
                             /\ UNCHANGED numsBin
                        ELSE \E newFile \in BOOLEAN :
                                IF newFile
                                   THEN /\ fpc' = "loaded"
                                        /\ gData' = ZeroData
                                        /\ numsBin' = [exists |-> TRUE,
                                                       bytes |-> WriteAll(ZeroData)]
                                   ELSE /\ fpc' = "equit"
                                        /\ UNCHANGED <<gData, numsBin>>
    /\ UNCHANGED <<run, keys, lastSaved, wrote, restFile>>

\* main: loadMedia() returned 0, the main loop begins
file_EnterLoop ==
    /\ fpc = "loaded"
    /\ fpc' = "loop"
    /\ UNCHANGED <<gData, numsBin, currentData, run, keys, lastSaved, wrote, restFile>>

\* get_key(): SDLK_UP, SDLK_DOWN move the highlight (with wrap-around),
\* SDLK_LEFT, SDLK_RIGHT decrement and increment gData[currentData].
\* currentData counts from 0 as in the code; gData is indexed from 1 here.
get_key(k) ==
    /\ fpc = "loop"
    /\ keys < MaxKeys
    /\ keys' = keys + 1
    /\ CASE k = "SDLK_UP" ->
              /\ currentData' = IF currentData - 1 < 0 THEN TOTAL_DATA - 1 ELSE currentData - 1
              /\ UNCHANGED gData
         [] k = "SDLK_DOWN" ->
              /\ currentData' = IF currentData + 1 = TOTAL_DATA THEN 0 ELSE currentData + 1
              /\ UNCHANGED gData
         [] k = "SDLK_LEFT" ->
              /\ gData' = [gData EXCEPT ![currentData + 1] = Decrement(@)]
              /\ UNCHANGED currentData
         [] k = "SDLK_RIGHT" ->
              /\ gData' = [gData EXCEPT ![currentData + 1] = Increment(@)]
              /\ UNCHANGED currentData
    /\ UNCHANGED <<numsBin, fpc, run, lastSaved, wrote, restFile>>

\* main loop: SDL_QUIT: goto equit
file_Quit ==
    /\ fpc = "loop"
    /\ fpc' = "equit"
    /\ UNCHANGED <<gData, numsBin, currentData, run, keys, lastSaved, wrote, restFile>>

\* equit: close_all(): nums.bin is opened "w+b" (emptied) and all of gData
\* is written; if it cannot be opened the failure is logged and nothing is
\* written.  Then main returns and the process ends.
file_close_all ==
    /\ fpc = "equit"
    /\ \E opened \in BOOLEAN :
          /\ wrote' = opened
          /\ IF opened
                THEN /\ numsBin' = [exists |-> TRUE, bytes |-> WriteAll(gData)]
                     /\ lastSaved' = gData
                ELSE UNCHANGED <<numsBin, lastSaved>>
    /\ fpc' = "exited"
    /\ UNCHANGED <<gData, currentData, run, keys, restFile>>

\* the program is started again: a new process, nums.bin as it was left
file_NextRun ==
    /\ fpc = "exited"
    /\ run < MaxRuns
    /\ run' = run + 1
    /\ gData' = ZeroData
    /\ currentData' = 0
    /\ keys' = 0
    /\ wrote' = FALSE
    /\ fpc' = "init"
    /\ UNCHANGED <<numsBin, lastSaved, restFile>>

NextFile ==
    \/ file_init
    \/ file_loadMedia
    \/ file_EnterLoop
    \/ \E k \in {"SDLK_UP", "SDLK_DOWN", "SDLK_LEFT", "SDLK_RIGHT"} : get_key(k)
    \/ file_Quit
    \/ file_close_all
    \/ file_NextRun

SpecFile == InitFile /\ [][NextFile]_vars

-----------------------------------------------------------------------------
(***************************************************************************)
(* LTimer: the stopwatch built on SDL_GetTicks().  All of its arithmetic   *)
(* is on Uint32, so differences wrap around; the tick counter is modelled  *)
(* with a small range in place of 2^32, so that the wrap-around happens.   *)
(***************************************************************************)

\* the number of values of a tick count (2^32 for the program's Uint32)
TickRange == 16
\* the most milliseconds that pass between two events
MaxTickStep == 3

\* Uint32 a - b
TickDiff(a, b) == (a - b) % TickRange

\* LTimer_pause: lt->mPausedTicks = SDL_GetTicks() - lt->mStartTicks;
PauseTicks(now, start) == TickDiff(now, start)

\* an unpause that starts counting at the current tick
UnpauseStart_FromNow(now, paused) == now

\* LTimer_unpause: lt->mStartTicks = SDL_GetTicks() - lt->mPausedTicks;
UnpauseStart(now, paused) == TickDiff(now, paused)

\* LTimer timer; LTimer_init(&timer); at any time after SDL_Init
InitTimer ==
    /\ ticks \in 0..(TickRange - 1)
    /\ mStartTicks = 0
    /\ mPausedTicks = 0
    /\ mPaused = FALSE
    /\ mStarted = FALSE
    /\ tphase = "stopped"
    /\ pausedAt = 0
    /\ sinceUnpause = 0
    /\ sinceStart = 0
    /\ pausedFor = 0
    /\ gData = 0 - 1
    /\ IdlePC
    /\ IdleLock
    /\ IdleMain
    /\ IdleFile
    /\ IdleWin
    /\ IdleDisp
    /\ IdleTiles
    /\ IdleCam

LTimer_start ==
    /\ mStarted' = TRUE
    /\ mPaused' = FALSE
    /\ mStartTicks' = ticks
    /\ mPausedTicks' = 0

LTimer_stop ==
    /\ mStarted' = FALSE
    /\ mPaused' = FALSE
    /\ mStartTicks' = 0
    /\ mPausedTicks' = 0

LTimer_pause ==
    IF mStarted /\ ~mPaused
       THEN /\ mPaused' = TRUE
            /\ mPausedTicks' = PauseTicks(ticks, mStartTicks)
            /\ mStartTicks' = 0
            /\ UNCHANGED mStarted
       ELSE UNCHANGED <<mStartTicks, mPausedTicks, mPaused, mStarted>>

LTimer_unpause ==
    IF mStarted /\ mPaused
       THEN /\ mPaused' = FALSE
            /\ mStartTicks' = UnpauseStart(ticks, mPausedTicks)
            /\ mPausedTicks' = 0
            /\ UNCHANGED mStarted
       ELSE UNCHANGED <<mStartTicks, mPausedTicks, mPaused, mStarted>>

\* a getTicks that does not look at mStarted
LTimer_getTicks_Unguarded ==
    IF mPaused THEN mPausedTicks ELSE TickDiff(ticks, mStartTicks)

LTimer_getTicks ==
    IF mStarted
       THEN IF mPaused THEN mPausedTicks ELSE TickDiff(ticks, mStartTicks)
       ELSE 0

LTimer_isStarted == mStarted

LTimer_isPaused == mPaused /\ mStarted

\* get_key_event, SDLK_s: stop the timer if it is started, else start it
get_key_event_s ==
    /\ tphase /= "none"
    /\ IF LTimer_isStarted
          THEN LTimer_stop /\ tphase' = "stopped"
          ELSE LTimer_start /\ tphase' = "running"
    /\ pausedAt' = 0
    /\ sinceUnpause' = 0
    /\ sinceStart' = 0
    /\ pausedFor' = 0
    /\ UNCHANGED <<ticks, restTimer>>

\* get_key_event, SDLK_p: unpause the timer if it is paused, else pause it
\* (LTimer_pause does nothing to a timer that is not started)
get_key_event_p ==
    /\ tphase /= "none"
    /\ IF LTimer_isPaused
          THEN /\ LTimer_unpause
               /\ tphase' = "resumed"
               /\ sinceUnpause' = 0
               /\ UNCHANGED pausedAt
          ELSE /\ LTimer_pause
               /\ tphase' = IF mStarted THEN "paused" ELSE tphase
               /\ pausedAt' = IF mStarted THEN LTimer_getTicks ELSE pausedAt
               /\ sinceUnpause' = 0
    /\ UNCHANGED <<ticks, sinceStart, pausedFor, restTimer>>

\* time passes between two events of the main loop
Tick ==
    /\ tphase /= "none"
    /\ \E d \in 1..MaxTickStep :
          /\ ticks' = (ticks + d) % TickRange
          /\ sinceUnpause' = IF tphase = "resumed"
                                THEN (sinceUnpause + d) % TickRange
                                ELSE sinceUnpause
          /\ sinceStart' = IF tphase = "stopped"
                              THEN sinceStart
                              ELSE (sinceStart + d) % TickRange
          /\ pausedFor' = IF tphase = "paused"
                             THEN (pausedFor + d) % TickRange
                             ELSE pausedFor
    /\ UNCHANGED <<mStartTicks, mPausedTicks, mPaused, mStarted, tphase,
                   pausedAt, restTimer>>

NextTimer == get_key_event_s \/ get_key_event_p \/ Tick

SpecTimer == InitTimer /\ [][NextTimer]_vars

-----------------------------------------------------------------------------
(***************************************************************************)
(* Multiple windows demo: three LWindow objects, one SDL event queue.  A   *)
(* window that is closed is hidden, not destroyed; the keys 1, 2, 3 bring  *)
(* a window back; the program ends when LWindow_isShown is false for all.  *)
(* onScreen is SDL's own state of the window, mShown is the flag the       *)
(* program keeps.                                                          *)
(***************************************************************************)

\* #define TOTAL_WINDOWS 3
TOTAL_WINDOWS == 3

\* user actions that are followed, and events the user adds to a queue
\* that has not been drained yet
MaxUserEvents == 5
MaxQueue == 2

\* gWindows[0] .. gWindows[TOTAL_WINDOWS - 1]
WindowIds == 0..(TOTAL_WINDOWS - 1)

Event(type, w) == [type |-> type, win |-> w]

\* The state when main reaches while(1): init() opened window 0; main
\* called LWindow_init for windows 1 and 2 and did not look at the result,
\* so either may not exist (LWindow_new left its mShown 0).  SDL has queued
\* SDL_WINDOWEVENT_SHOWN for every window it created.
InitWin ==
    /\ mWindow \in [WindowIds -> BOOLEAN]
    /\ mWindow[0]
    /\ mShown = mWindow
    /\ mMinimized = [w \in WindowIds |-> FALSE]
    /\ onScreen = mWindow
    /\ events = SelectSeq([k \in 1..TOTAL_WINDOWS |->
                              Event("SDL_WINDOWEVENT_SHOWN", k - 1)],
                          LAMBDA e : mWindow[e.win])
    /\ winPc = "loop"
    /\ endedBy = "none"
    /\ lastHandled = [w \in WindowIds |-> "none"]
    /\ userEvents = 0
    /\ gData = 0 - 1
    /\ IdlePC
    /\ IdleLock
    /\ IdleMain
    /\ IdleFile
    /\ IdleTimer
    /\ IdleDisp
    /\ IdleTiles
    /\ IdleCam

\* something the user does puts the event e on the queue
UserEvent(e) ==
    /\ winPc = "loop"
    /\ userEvents < MaxUserEvents
    /\ Len(events) < MaxQueue
    /\ userEvents' = userEvents + 1
    /\ events' = Append(events, e)
    /\ UNCHANGED <<mWindow, mShown, mMinimized, onScreen, winPc, endedBy,
                   lastHandled, restWin>>

\* the user clicks the X of a window that is on screen
user_CloseWindow(w) == onScreen[w] /\ UserEvent(Event("SDL_WINDOWEVENT_CLOSE", w))

\* the user minimizes or restores a window that is on screen
user_Minimize(w) == onScreen[w] /\ UserEvent(Event("SDL_WINDOWEVENT_MINIMIZED", w))
user_Restore(w) == onScreen[w] /\ UserEvent(Event("SDL_WINDOWEVENT_RESTORED", w))

\* the user presses 1, 2 or 3 (SDL_KEYDOWN, w is the index of the window
\* the key stands for) or q; these events belong to no window
user_PressKey(w) == UserEvent(Event("SDLK_1 + w", w))
user_PressQ == UserEvent(Event("SDLK_q", 0))

\* the session ends: SDL_QUIT
user_Quit == UserEvent(Event("SDL_QUIT", 0))

\* LWindow_isShown
LWindow_isShown(w) == mShown[w]

\* main: SDL_PollEvent delivers a window event; LWindow_handleEvent of the
\* window with that id: SHOWN changes nothing (the assignment to mShown is
\* commented out), HIDDEN and RESTORED clear mMinimized, MINIMIZED sets it,
\* CLOSE calls SDL_HideWindow (SDL queues SDL_WINDOWEVENT_HIDDEN) and
\* clears mShown.
LWindow_handleEvent ==
    /\ winPc = "loop"
    /\ events /= <<>>
    /\ LET e == Head(events)
           w == e.win
       IN  /\ e.type \in {"SDL_WINDOWEVENT_SHOWN", "SDL_WINDOWEVENT_HIDDEN",
                          "SDL_WINDOWEVENT_MINIMIZED", "SDL_WINDOWEVENT_RESTORED",
                          "SDL_WINDOWEVENT_CLOSE"}
           /\ lastHandled' = [lastHandled EXCEPT ![w] = e.type]
           /\ CASE e.type = "SDL_WINDOWEVENT_SHOWN" ->
                     /\ events' = Tail(events)
                     /\ UNCHANGED <<mShown, mMinimized, onScreen>>
                [] e.type \in {"SDL_WINDOWEVENT_HIDDEN", "SDL_WINDOWEVENT_RESTORED"} ->
                     /\ mMinimized' = [mMinimized EXCEPT ![w] = FALSE]
                     /\ events' = Tail(events)
                     /\ UNCHANGED <<mShown, onScreen>>
                [] e.type = "SDL_WINDOWEVENT_MINIMIZED" ->
                     /\ mMinimized' = [mMinimized EXCEPT ![w] = TRUE]
                     /\ events' = Tail(events)
                     /\ UNCHANGED <<mShown, onScreen>>
                [] e.type = "SDL_WINDOWEVENT_CLOSE" ->
                     /\ onScreen' = [onScreen EXCEPT ![w] = FALSE]
                     /\ events' = IF onScreen[w]
                                     THEN Append(Tail(events),
                                                 Event("SDL_WINDOWEVENT_HIDDEN", w))
                                     ELSE Tail(events)
                     /\ mShown' = [mShown EXCEPT ![w] = FALSE]
                     /\ UNCHANGED mMinimized
    /\ UNCHANGED <<mWindow, winPc, endedBy, userEvents, restWin>>

\* main: SDLK_1, SDLK_2, SDLK_3: LWindow_focus: if(w->mShown == 0)
\* SDL_ShowWindow (SDL queues SDL_WINDOWEVENT_SHOWN if the window was
\* hidden; nothing happens for a window that was never created), then
\* SDL_RaiseWindow.  mShown is not assigned.
LWindow_focus ==
    /\ winPc = "loop"
    /\ events /= <<>>
    /\ LET e == Head(events)
           w == e.win
       IN  /\ e.type = "SDLK_1 + w"
           /\ IF mShown[w] = FALSE /\ mWindow[w] /\ ~onScreen[w]
                 THEN /\ onScreen' = [onScreen EXCEPT ![w] = TRUE]
                      /\ events' = Append(Tail(events),
                                          Event("SDL_WINDOWEVENT_SHOWN", w))
                 ELSE /\ events' = Tail(events)
                      /\ UNCHANGED onScreen
    /\ UNCHANGED <<mWindow, mShown, mMinimized, winPc, endedBy, lastHandled,
                   userEvents, restWin>>

\* main: SDL_QUIT or SDLK_q: goto equit
win_PollQuit ==
    /\ winPc = "loop"
    /\ events /= <<>>
    /\ Head(events).type \in {"SDL_QUIT", "SDLK_q"}
    /\ events' = Tail(events)
    /\ winPc' = "equit"
    /\ endedBy' = "quit"
    /\ UNCHANGED <<mWindow, mShown, mMinimized, onScreen, lastHandled,
                   userEvents, restWin>>

\* main: SDL_PollEvent returned 0; the windows are rendered; then
\* allWindowsClosed: goto equit unless LWindow_isShown for some window
win_CheckAllClosed ==
    /\ winPc = "loop"
    /\ events = <<>>
    /\ IF \E w \in WindowIds : LWindow_isShown(w)
          THEN UNCHANGED <<winPc, endedBy>>
          ELSE winPc' = "equit" /\ endedBy' = "allWindowsClosed"
    /\ UNCHANGED <<mWindow, mShown, mMinimized, onScreen, events, lastHandled,
                   userEvents, restWin>>

\* equit: close_all(): LWindow_free destroys every window; return 0
win_close_all ==
    /\ winPc = "equit"
    /\ winPc' = "exited"
    /\ onScreen' = [w \in WindowIds |-> FALSE]
    /\ mWindow' = [w \in WindowIds |-> FALSE]
    /\ UNCHANGED <<mShown, mMinimized, events, endedBy, lastHandled,
                   userEvents, restWin>>

NextWin ==
    \/ \E w \in WindowIds : user_CloseWindow(w)
    \/ \E w \in WindowIds : user_Minimize(w)
    \/ \E w \in WindowIds : user_Restore(w)
    \/ \E w \in WindowIds : user_PressKey(w)
    \/ user_PressQ
    \/ user_Quit
    \/ LWindow_handleEvent
    \/ LWindow_focus
    \/ win_PollQuit
    \/ win_CheckAllClosed
    \/ win_close_all

SpecWin == InitWin /\ [][NextWin]_vars

-----------------------------------------------------------------------------
(***************************************************************************)
(* Multiple displays demo: one window, and the index of the display it is  *)
(* on.  mWindowDisplayID is unsigned, so it wraps around below 0; it is    *)
(* modelled with a small range in place of 2^32.                           *)
(***************************************************************************)

\* displays connected, at most
MaxDisplays == 3
\* the number of values of an unsigned (2^32 in the program)
UnsignedRange == 8

\* The state when main reaches while(1): init() has set gTotalDisplays from
\* SDL_GetNumVideoDisplays() and LWindow_init has set mWindowDisplayID from
\* SDL_GetWindowDisplayIndex(); the title is "SDL Tutorial".
InitDisp ==
    /\ gTotalDisplays \in 1..MaxDisplays
    /\ windowOn \in 0..(gTotalDisplays - 1)
    /\ mWindowDisplayID = windowOn
    /\ setPosition = 0 - 1
    /\ caption = 0 - 1
    /\ dLast = "none"
    /\ dispPc = "loop"
    /\ gData = 0 - 1
    /\ IdlePC
    /\ IdleLock
    /\ IdleMain
    /\ IdleFile
    /\ IdleTimer
    /\ IdleWin
    /\ IdleTiles
    /\ IdleCam

\* LWindow_handleEvent, SDL_KEYDOWN, case SDLK_UP: ++w->mWindowDisplayID;
\* switchDisplay = 1; goto update;  The goto leaves the handler's key
\* branch: the bounding of the index and SDL_SetWindowPosition, which
\* follow the switch, are not executed, and updateCaption is 0.
handleEvent_SDLK_UP ==
    /\ dispPc = "loop"
    /\ mWindowDisplayID' = (mWindowDisplayID + 1) % UnsignedRange
    /\ setPosition' = 0 - 1
    /\ dLast' = "SDLK_UP"
    /\ UNCHANGED <<gTotalDisplays, windowOn, caption, dispPc, restDisp>>

\* case SDLK_DOWN: --w->mWindowDisplayID; switchDisplay = 1; goto update;
handleEvent_SDLK_DOWN ==
    /\ dispPc = "loop"
    /\ mWindowDisplayID' = (mWindowDisplayID - 1) % UnsignedRange
    /\ setPosition' = 0 - 1
    /\ dLast' = "SDLK_DOWN"
    /\ UNCHANGED <<gTotalDisplays, windowOn, caption, dispPc, restDisp>>

\* the user drags the window to display d; SDL_WINDOWEVENT_MOVED:
\* w->mWindowDisplayID = SDL_GetWindowDisplayIndex(w->mWindow); the caption
\* is updated
handleEvent_MOVED(d) ==
    /\ dispPc = "loop"
    /\ d \in 0..(gTotalDisplays - 1)
    /\ windowOn' = d
    /\ mWindowDisplayID' = d
    /\ caption' = d
    /\ setPosition' = 0 - 1
    /\ dLast' = "SDL_WINDOWEVENT_MOVED"
    /\ UNCHANGED <<gTotalDisplays, dispPc, restDisp>>

\* SDL_WINDOWEVENT_ENTER, LEAVE, FOCUS_GAINED, FOCUS_LOST: the focus flag
\* changes and the caption is written with the current mWindowDisplayID
handleEvent_Focus ==
    /\ dispPc = "loop"
    /\ caption' = mWindowDisplayID
    /\ setPosition' = 0 - 1
    /\ dLast' = "SDL_WINDOWEVENT_FOCUS"
    /\ UNCHANGED <<gTotalDisplays, mWindowDisplayID, windowOn, dispPc, restDisp>>

\* main: SDL_QUIT: goto equit
disp_Quit ==
    /\ dispPc = "loop"
    /\ dispPc' = "equit"
    /\ UNCHANGED <<gTotalDisplays, mWindowDisplayID, windowOn, setPosition,
                   caption, dLast, restDisp>>

\* equit: close_all(); return 0
disp_close_all ==
    /\ dispPc = "equit"
    /\ dispPc' = "exited"
    /\ UNCHANGED <<gTotalDisplays, mWindowDisplayID, windowOn, setPosition,
                   caption, dLast, restDisp>>

NextDisp ==
    \/ handleEvent_SDLK_UP
    \/ handleEvent_SDLK_DOWN
    \/ \E d \in 0..(MaxDisplays - 1) : handleEvent_MOVED(d)
    \/ handleEvent_Focus
    \/ disp_Quit
    \/ disp_close_all

SpecDisp == InitDisp /\ [][NextDisp]_vars

-----------------------------------------------------------------------------
(***************************************************************************)
(* Tiling demo: setTiles() reads the tile types of the level from the      *)
(* text file lazy.map with fscanf(fp, "%d", ...) and creates one Tile per  *)
(* number.  The level is modelled with a few tiles in place of the         *)
(* program's 192; lazy.map is any short sequence of tokens.                *)
(***************************************************************************)

\* #define TOTAL_TILE_SPRITES 12, TILE_WIDTH 80, TILE_HEIGHT 80,
\* LEVEL_WIDTH 1280
TOTAL_TILE_SPRITES == 12
TILE_WIDTH == 80
TILE_HEIGHT == 80
LEVEL_WIDTH == 1280

\* tiles of the level (TOTAL_TILES, 192 in the program), and the most
\* tokens lazy.map holds
TOTAL_TILES == 3
MaxMapTokens == 4

\* a token of lazy.map: a number, or text that "%d" does not match
Number(v) == [isNumber |-> TRUE, val |-> v]
NotANumber == [isNumber |-> FALSE, val |-> 0]
MapTokens == {Number(0 - 1), Number(0), Number(11), Number(12), NotANumber}

RECURSIVE TokenSeqs(_)
\* all token sequences of length n
TokenSeqs(n) ==
    IF n = 0 THEN {<<>>}
    ELSE {Append(q, t) : q \in TokenSeqs(n - 1), t \in MapTokens}

\* fscanf(fp, "%d", &tile): EOF (-1) at the end of the file; 1 and the
\* number stored if the next token is a number; 0, nothing stored and
\* nothing consumed if it is not.
fscanf_result(tokens, pos) ==
    IF pos >= Len(tokens) THEN 0 - 1
    ELSE IF tokens[pos + 1].isNumber THEN 1 ELSE 0

\* if((*tileType >= 0) && (*tileType < TOTAL_TILE_SPRITES) == 0): the
\* comparison with 0 applies to the second operand of && only
TileTypeRejected(t) == (t >= 0) /\ ((t < TOTAL_TILE_SPRITES) = FALSE)

\* setTiles is entered: x = 0, y = 0, tile = -1; lazy.map may be missing
InitTiles ==
    /\ \/ mapFile = [exists |-> FALSE, tokens |-> <<>>]
       \/ \E n \in 0..MaxMapTokens :
             \E q \in TokenSeqs(n) : mapFile = [exists |-> TRUE, tokens |-> q]
    /\ mapPos = 0
    /\ tile = 0 - 1
    /\ tileI = 0
    /\ tileX = 0
    /\ tileY = 0
    /\ tiles = <<>>
    /\ tilesPc = "fopen"
    /\ tilesResult = 0
    /\ gData = 0 - 1
    /\ IdlePC
    /\ IdleLock
    /\ IdleMain
    /\ IdleFile
    /\ IdleTimer
    /\ IdleWin
    /\ IdleDisp
    /\ IdleCam

\* fp = fopen("lazy.map", "r"); if(fp == NULL) return -1;
setTiles_fopen ==
    /\ tilesPc = "fopen"
    /\ IF mapFile.exists
          THEN tilesPc' = "loop" /\ UNCHANGED tilesResult
          ELSE tilesPc' = "returned" /\ tilesResult' = 0 - 1
    /\ UNCHANGED <<mapFile, mapPos, tile, tileI, tileX, tileY, tiles, restTiles>>

\* one pass of for(i = 0; i < TOTAL_TILES; ++i): fscanf, return -1 if its
\* result is < 0; return -1 if the tile type is rejected; else the tile is
\* created with Tile_init(tiles[i], x, y, tile) and x, y move on.
\* "read" records whether this pass's fscanf stored the tile's type.
setTiles_loop ==
    /\ tilesPc = "loop"
    /\ tileI < TOTAL_TILES
    /\ LET r == fscanf_result(mapFile.tokens, mapPos)
           t == IF r = 1 THEN mapFile.tokens[mapPos + 1].val ELSE tile
       IN  /\ tile' = t
           /\ mapPos' = IF r = 1 THEN mapPos + 1 ELSE mapPos
           /\ IF r < 0 \/ TileTypeRejected(t)
                 THEN /\ tilesPc' = "returned"
                      /\ tilesResult' = 0 - 1
                      /\ UNCHANGED <<tileI, tileX, tileY, tiles>>
                 ELSE /\ tiles' = Append(tiles, [mType |-> t, x |-> tileX,
                                                 y |-> tileY, read |-> r = 1])
                      /\ tileI' = tileI + 1
                      /\ tileX' = IF tileX + TILE_WIDTH >= LEVEL_WIDTH
                                     THEN 0 ELSE tileX + TILE_WIDTH
                      /\ tileY' = IF tileX + TILE_WIDTH >= LEVEL_WIDTH
                                     THEN tileY + TILE_HEIGHT ELSE tileY
                      /\ UNCHANGED <<tilesPc, tilesResult>>
    /\ UNCHANGED <<mapFile, restTiles>>

\* the loop is through: the clips are set, fclose(fp); return 0;
setTiles_return ==
    /\ tilesPc = "loop"
    /\ tileI = TOTAL_TILES
    /\ tilesPc' = "returned"
    /\ tilesResult' = 0
    /\ UNCHANGED <<mapFile, mapPos, tile, tileI, tileX, tileY, tiles, restTiles>>

NextTiles == setTiles_fopen \/ setTiles_loop \/ setTiles_return

SpecTiles == InitTiles /\ [][NextTiles]_vars

-----------------------------------------------------------------------------
(***************************************************************************)
(* Scrolling demo: the arrow keys and the joystick change the velocity of  *)
(* the dot; every pass of the main loop moves the dot with Dot_move and    *)
(* centres the camera over it, kept inside the level.                      *)
(***************************************************************************)

\* #define LEVEL_HEIGHT 960, SCREEN_WIDTH 640, SCREEN_HEIGHT 480,
\* DOT_WIDTH 20, DOT_HEIGHT 20, DOT_VEL 5, DOT_JOY_VEL 1
LEVEL_HEIGHT == 960
SCREEN_WIDTH == 640
SCREEN_HEIGHT == 480
DOT_WIDTH == 20
DOT_HEIGHT == 20
DOT_VEL == 5
DOT_JOY_VEL == 1

\* passes of the main loop that are followed, and the largest velocity
MaxFrames == 1
MaxVel == 5

\* a camera coordinate that follows the dot without limits
CameraAxis_Centred(pos, dotSize, screenSize, levelSize, camSize) ==
    (pos + dotSize \div 2) - screenSize \div 2

\* main: camera.x = (dot.mPosX + DOT_WIDTH / 2) - SCREEN_WIDTH / 2;
\* if(camera.x < 0) camera.x = 0;
\* if(camera.x > LEVEL_WIDTH - camera.w) camera.x = LEVEL_WIDTH - camera.w;
\* and the same for y
CameraAxis(pos, dotSize, screenSize, levelSize, camSize) ==
    LET c == (pos + dotSize \div 2) - screenSize \div 2
        c0 == IF c < 0 THEN 0 ELSE c
    IN  IF c0 > levelSize - camSize THEN levelSize - camSize ELSE c0

\* Dot_move on one axis: the dot moves by its velocity and moves back if
\* it has left the level
MoveAxis(pos, vel, dotSize, levelSize) ==
    IF pos + vel < 0 \/ pos + vel + dotSize > levelSize THEN pos ELSE pos + vel

\* the camera centred over the dot at (px, py), w and h unchanged
CameraOver(px, py, cam) ==
    [cam EXCEPT !.x = CameraAxis(px, DOT_WIDTH, SCREEN_WIDTH, LEVEL_WIDTH, cam.w),
                !.y = CameraAxis(py, DOT_HEIGHT, SCREEN_HEIGHT, LEVEL_HEIGHT, cam.h)]

\* positions Dot_move has brought the dot to: the corner it starts in,
\* where the camera stops following at either end, the far edge
StartX == {0, SCREEN_WIDTH \div 2 - DOT_WIDTH \div 2,
           LEVEL_WIDTH - SCREEN_WIDTH \div 2 - DOT_WIDTH \div 2,
           LEVEL_WIDTH - DOT_WIDTH}
StartY == {0, SCREEN_HEIGHT \div 2 - DOT_HEIGHT \div 2,
           LEVEL_HEIGHT - SCREEN_HEIGHT \div 2 - DOT_HEIGHT \div 2,
           LEVEL_HEIGHT - DOT_HEIGHT}

\* The top of a pass of the main loop: Dot_init and
\* camera = {0, 0, SCREEN_WIDTH, SCREEN_HEIGHT} for the dot at (0, 0), or
\* the dot where earlier passes have moved it, at rest, and the camera
\* where the last pass has put it.
InitCam ==
    /\ mPosX \in StartX
    /\ mPosY \in StartY
    /\ mVelX = 0
    /\ mVelY = 0
    /\ camera = CameraOver(mPosX, mPosY,
                           [x |-> 0, y |-> 0, w |-> SCREEN_WIDTH, h |-> SCREEN_HEIGHT])
    /\ frames = 0
    /\ gData = 0 - 1
    /\ IdlePC
    /\ IdleLock
    /\ IdleMain
    /\ IdleFile
    /\ IdleTimer
    /\ IdleWin
    /\ IdleDisp
    /\ IdleTiles

\* handle_keyboard_events: SDL_KEYDOWN / SDL_KEYUP of an arrow key add
\* DOT_VEL to a velocity or take it off (dv is +DOT_VEL or -DOT_VEL)
handle_keyboard_events ==
    /\ frames < MaxFrames
    /\ \E dv \in {DOT_VEL, 0 - DOT_VEL} :
          \/ /\ mVelX + dv \in (0 - MaxVel)..MaxVel
             /\ mVelX' = mVelX + dv
             /\ UNCHANGED mVelY
          \/ /\ mVelY + dv \in (0 - MaxVel)..MaxVel
             /\ mVelY' = mVelY + dv
             /\ UNCHANGED mVelX
    /\ UNCHANGED <<mPosX, mPosY, camera, frames, restCam>>

\* handle_axis_motion: past the dead zone the velocity of the axis changes
\* by DOT_JOY_VEL, inside the dead zone it becomes 0
handle_axis_motion ==
    /\ frames < MaxFrames
    /\ \E value \in {"below", "dead zone", "above"} :
          LET new(v) == CASE value = "below" -> v - DOT_JOY_VEL
                          [] value = "above" -> v + DOT_JOY_VEL
                          [] value = "dead zone" -> 0
          IN  \/ /\ new(mVelX) \in (0 - MaxVel)..MaxVel
                 /\ mVelX' = new(mVelX)
                 /\ UNCHANGED mVelY
              \/ /\ new(mVelY) \in (0 - MaxVel)..MaxVel
                 /\ mVelY' = new(mVelY)
                 /\ UNCHANGED mVelX
    /\ UNCHANGED <<mPosX, mPosY, camera, frames, restCam>>

\* main loop after the events: Dot_move(&dot); then the camera is centred
\* over the dot and kept inside the level
main_MoveAndSetCamera ==
    /\ frames < MaxFrames
    /\ frames' = frames + 1
    /\ mPosX' = MoveAxis(mPosX, mVelX, DOT_WIDTH, LEVEL_WIDTH)
    /\ mPosY' = MoveAxis(mPosY, mVelY, DOT_HEIGHT, LEVEL_HEIGHT)
    /\ camera' = CameraOver(mPosX', mPosY', camera)
    /\ UNCHANGED <<mVelX, mVelY, restCam>>

NextCam == handle_keyboard_events \/ handle_axis_motion \/ main_MoveAndSetCamera

SpecCam == InitCam /\ [][NextCam]_vars

-----------------------------------------------------------------------------
(***************************************************************************)
(* Properties.                                                             *)
(***************************************************************************)

\* C1: when consume() prints and resets gData it holds a produced value,
\* never the empty marker -1: the consumer never reads an empty buffer.
C1_ConsumerNeverReadsEmpty ==
    pc["consumer"] = "work" => gData /= 0 - 1

\* C2: when produce() assigns gData the buffer is empty (gData = -1): the
\* producer never overwrites a value that has not been consumed.
C2_ProducerNeverFillsFull ==
    pc["producer"] = "work" => gData = 0 - 1

\* C3: under every interleaving that lets both threads run, the producer
\* and the consumer each complete all five of their calls.
C3_BothThreadsComplete ==
    <>(pc["producer"] = "done" /\ pc["consumer"] = "done")

\* C4: in the semaphore demo and in the spinlock demo the two workers are
\* never inside the critical section at the same time.
C4_MutualExclusion ==
    \A v, w \in Workers :
        (InCriticalSection(v) /\ InCriticalSection(w)) => v = w

\* C5: when close_all() has run, every thread that main created has
\* finished (main waited for it with SDL_WaitThread).
C5_ThreadsFinishedBeforeClose ==
    mainPc \in {"closed", "exited"} => \A w \in created : wpc[w] = "end"

\* C6: main never returns without close_all() having run, whether the
\* start-up succeeded or failed.
C6_CloseAllOnEveryExit ==
    mpc = "exited" => closedAll

\* C7: main returns 0 on a graceful exit and a negative value when init()
\* or loadMedia() failed, never 0 or a positive value after such a failure.
C7_ExitCode ==
    mpc = "exited" => IF startupFailed THEN exitCode < 0 ELSE exitCode = 0

\* C8: main enters the event loop only if no library call of the start-up
\* failed: every failure is detected and stops the start-up.
C8_NoFailedCallReachesLoop ==
    mpc = "loop" => failedCalls = {}

\* C9: when close_all() has written nums.bin, the file holds exactly the
\* ten values gData held at that moment, and whenever a later loadMedia()
\* has read nums.bin, gData holds exactly the values that were last saved.
C9_RoundTrip ==
    /\ (fpc = "exited" /\ wrote) =>
          /\ Len(numsBin.bytes) = TOTAL_DATA * SizeofSint32
          /\ ReadAll(numsBin.bytes, ZeroData) = gData
    /\ (fpc = "loaded" /\ lastSaved /= <<>>) => gData = lastSaved

\* a second run has read back values saved by the first, among them a
\* negative one that an increment wrapped around and one with a high byte set
C9_Witness ==
    /\ fpc = "loaded"
    /\ run = 2
    /\ lastSaved /= SampleData
    /\ gData[1] = INT32_MIN
    /\ gData[TOTAL_DATA] = 16777216

\* C10: a timer paused at elapsed time T shows T for as long as it is
\* paused, and after the unpause it shows T plus the time since the
\* unpause (in Uint32 arithmetic), however long the pause lasted.
C10_PauseKeepsElapsed ==
    /\ tphase = "paused" => LTimer_getTicks = pausedAt
    /\ tphase = "resumed" =>
          LTimer_getTicks = (pausedAt + sinceUnpause) % TickRange

\* the timer was paused at T = 5, unpaused after the tick counter had
\* moved on (here past its wrap-around), and has run for 3 more ticks
C10_Witness ==
    /\ tphase = "resumed"
    /\ pausedAt = 5
    /\ sinceUnpause = 3
    /\ ticks < mStartTicks

\* C11 as stated: LTimer_getTicks returns 0 for a stopped timer, the time
\* stored at the pause for a paused one, and the time elapsed since
\* LTimer_start for one that is running and not paused.
C11_GetTicksSinceStart ==
    /\ tphase = "stopped" => LTimer_getTicks = 0
    /\ tphase = "paused" => LTimer_getTicks = pausedAt
    /\ tphase \in {"running", "resumed"} => LTimer_getTicks = sinceStart

\* C11: LTimer_getTicks returns 0 for a stopped timer, the time stored at
\* the pause for a paused one, and for one that is running and not paused
\* the time elapsed since LTimer_start less the time it has spent paused
\* (in Uint32 arithmetic).
C11_GetTicksRunningTime ==
    /\ tphase = "stopped" => LTimer_getTicks = 0
    /\ tphase = "paused" => LTimer_getTicks = pausedAt
    /\ tphase \in {"running", "resumed"} =>
          LTimer_getTicks = (sinceStart - pausedFor) % TickRange

\* a timer that ran 2 ticks, was paused for 4 and has run 1 more since
C11_Witness ==
    /\ tphase = "resumed"
    /\ pausedFor = 4
    /\ sinceStart = 7
    /\ LTimer_getTicks = 3


\* C12: the program leaves its loop through the all-windows-closed check
\* only when none of the three windows is on screen, also when a window
\* was closed earlier and brought back with the 1, 2 or 3 key.
C12_EndsOnlyWhenNoneShown ==
    (winPc = "equit" /\ endedBy = "allWindowsClosed") =>
        \A w \in WindowIds : ~onScreen[w]

\* C17: after a window has handled SDL_WINDOWEVENT_SHOWN, LWindow_isShown
\* is true for it, and after it has handled SDL_WINDOWEVENT_HIDDEN,
\* LWindow_isShown is false for it.
C17_ShownFlagFollowsEvents ==
    \A w \in WindowIds :
        /\ lastHandled[w] = "SDL_WINDOWEVENT_SHOWN" => LWindow_isShown(w)
        /\ lastHandled[w] = "SDL_WINDOWEVENT_HIDDEN" => ~LWindow_isShown(w)

\* C13: handling an up or down key press calls SDL_SetWindowPosition with
\* the bounds of the display that has the new index, so that the window is
\* on that display afterwards.
C13_KeyMovesWindow ==
    dLast \in {"SDLK_UP", "SDLK_DOWN"} =>
        /\ setPosition = mWindowDisplayID
        /\ windowOn = mWindowDisplayID

\* C18: after an up or down key press has been handled the display index
\* is valid, 0 <= mWindowDisplayID < gTotalDisplays, and the caption never
\* shows an index that is not.
C18_DisplayIndexValid ==
    /\ dLast \in {"SDLK_UP", "SDLK_DOWN"} =>
          (0 <= mWindowDisplayID /\ mWindowDisplayID < gTotalDisplays)
    /\ caption < gTotalDisplays

\* C14: every tile that setTiles creates from a number it read has a valid
\* type, 0 <= type < TOTAL_TILE_SPRITES; any other number, a negative one
\* included, makes setTiles return failure without creating the tile.
C14_OnlyValidTileTypes ==
    \A k \in 1..Len(tiles) :
        tiles[k].read => (tiles[k].mType >= 0 /\ tiles[k].mType < TOTAL_TILE_SPRITES)

\* C16: setTiles creates a tile only from a value its fscanf has just read:
\* when a read fails, at the end of the file or at a token that is not a
\* number, no tile is created for it.
C16_NoTileFromFailedRead ==
    \A k \in 1..Len(tiles) : tiles[k].read

\* C15: after every camera update the camera is inside the level:
\* 0 <= camera.x <= LEVEL_WIDTH - camera.w and
\* 0 <= camera.y <= LEVEL_HEIGHT - camera.h, wherever Dot_move has put the
\* dot.
C15_CameraInsideLevel ==
    /\ 0 <= camera.x
    /\ camera.x <= LEVEL_WIDTH - camera.w
    /\ 0 <= camera.y
    /\ camera.y <= LEVEL_HEIGHT - camera.h

\* the dot has just moved past the point where the camera stops following
\* to the right, and above the point where it starts to follow downwards
C15_Witness ==
    /\ frames = 1
    /\ mVelX = DOT_JOY_VEL
    /\ mPosX = LEVEL_WIDTH - SCREEN_WIDTH \div 2 - DOT_WIDTH \div 2 + 1
    /\ camera.x = LEVEL_WIDTH - SCREEN_WIDTH
    /\ mVelY = 0 - DOT_VEL
    /\ mPosY = SCREEN_HEIGHT \div 2 - DOT_HEIGHT \div 2 - DOT_VEL
    /\ camera.y = 0

=============================================================================
